---------------------------- MODULE Spec2Model ----------------------------
(***************************************************************************)
(* Length-prefixed framing (src/src/frame/mod.rs): a FramedWriter writes   *)
(* <u32_le_len><frame_bytes...> into a sink, a FramedReader reads frames   *)
(* back from a cursor over the written bytes under a ReaderConfig.         *)
(*                                                                         *)
(* Representation choices:                                                 *)
(*  - a byte is a number in 0..255;                                        *)
(*  - a usize that can exceed 2^31 - 1 (the length of a payload handed to  *)
(*    the writer) is a pair [hi, lo] of value hi * 65536 + lo with         *)
(*    lo in 0..65535, because TLC's integers are 32-bit signed;            *)
(*  - a byte slice handed to the writer is [data, zeros]: the bytes of     *)
(*    data followed by `zeros` bytes of value 0 (vec![0u8; n]), so that a  *)
(*    payload longer than u32::MAX can be stated without being built;      *)
(*  - the sink W is a fixed-capacity in-memory buffer (Cursor<&mut [u8]>): *)
(*    write accepts bytes until SinkCap bytes are stored, then returns     *)
(*    Ok(0) and write_all fails with WriteZero;                            *)
(*    SpecTorn adds a sink that returns an error at a chosen byte of a     *)
(*    write_all call;                                                      *)
(*  - the source R is a Cursor over the bytes the sink holds.              *)
(***************************************************************************)
EXTENDS Integers, Sequences, FiniteSets, TLC

VARIABLES
    phase,      \* "write": a FramedWriter owns the buffer; "read": a FramedReader does
    sink,       \* the bytes stored in the underlying buffer
    sinkBefore, \* history: the sink at the start of the last write_frame call
    wlog,       \* history: one [op, bytes, code] per write call of the writer, in
                \* call order; a codec send also records the value and the step
                \* that produced its result (stage)
    sent,       \* history: the payloads of the calls that succeeded, in call order
    sentVal,    \* history: for each of them, the value a codec send encoded
                \* (Raw for a payload written by write_frame)
    sinkFlushes,\* the number of times the sink's Write::flush was invoked
    flushCalls, \* history: the number of FramedWriter::flush calls made
    ctor,       \* history: the constructor the reader was built with
    ctorArg,    \* history: the limit m handed to FramedReader::with_max
    cfg,        \* FramedReader.cfg
    pos,        \* the cursor of FramedReader.inner
    dst,        \* the caller's Vec<u8> handed to recv_into
    dstCap,     \* the capacity of that Vec
    dstBefore,  \* history: that Vec at the start of the last recv_into call
    buf,        \* the caller's slice after the last read_frame call
    rlog        \* history: one [op, code, len, at, dlen] per read call, in call
                \* order: the call, its result, the cursor and the destination's
                \* length when it was made; a codec recv also records the value
                \* returned and the step that produced its result (stage)

vars == <<phase, sink, sinkBefore, wlog, sent, sentVal, sinkFlushes, flushCalls, ctor, ctorArg, cfg, pos, dst, dstCap, dstBefore, buf, rlog>>

---------------------------------------------------------------------------
(* Bounds of the model. *)

\* longest payload written whole, and longest fixed destination slice
MaxLen == 2
\* number of write_frame calls
MaxFrames == 2
\* capacity of the sink buffer
SinkCap == 11
\* number of FramedWriter::flush calls
MaxFlushes == 2

\* number of read calls (recv_into / read_frame): one per frame written
MaxReads == MaxFrames

---------------------------------------------------------------------------
(* Helpers. *)

Min(a, b) == IF a < b THEN a ELSE b

\* usize values as [hi, lo], value hi * 65536 + lo
Wide(n) == [hi |-> n \div 65536, lo |-> n % 65536]

WidePlus(w, n) == [hi |-> w.hi + ((w.lo + n) \div 65536), lo |-> (w.lo + n) % 65536]

\* w <= n for a wide w and a small n
WideLeq(w, n) == w.hi < 32768 /\ w.hi * 65536 + w.lo <= n

\* u32::MAX
U32_MAX == [hi |-> 65535, lo |-> 65535]

---------------------------------------------------------------------------
(* FramedWriter *)

\* Number of bytes used for the length prefix.
LEN_PREFIX == 4

\* bytes.len()
slice_len(bytes) == WidePlus(bytes.zeros, Len(bytes.data))

\* the first n bytes of a slice, n small
slice_take(bytes, n) ==
    [i \in 1..n |-> IF i <= Len(bytes.data) THEN bytes.data[i] ELSE 0]

\* variant of try_into_u32: the truncating cast `bytes.len() as u32`
cast_as_u32(len) == [ok |-> TRUE, val |-> [hi |-> len.hi % 65536, lo |-> len.lo]]

\* usize -> u32 conversion of write_frame: fails iff the value exceeds u32::MAX
try_into_u32(len) == [ok |-> len.hi <= U32_MAX.hi, val |-> len]

\* variant of to_le_bytes: the big-endian encoding u32::to_be_bytes
to_be_bytes(len) ==
    <<(len.hi \div 256) % 256, len.hi % 256, len.lo \div 256, len.lo % 256>>

\* u32::to_le_bytes
to_le_bytes(len) ==
    <<len.lo % 256, len.lo \div 256, len.hi % 256, (len.hi \div 256) % 256>>

\* Write::write_all on the fixed-capacity sink: the bytes that fit are stored;
\* the call fails when not all of them fit.
write_all(snk, bytes) ==
    LET room == SinkCap - Len(snk)
        fits == WideLeq(slice_len(bytes), room)
        n    == IF fits THEN slice_len(bytes).lo ELSE room
    IN  [buf |-> snk \o slice_take(bytes, n), ok |-> fits]

\* FramedWriter::write_frame: the sink afterwards and the result code
write_frame(snk, bytes) ==
    LET len == try_into_u32(slice_len(bytes)) IN
    IF ~len.ok THEN [sink |-> snk, code |-> "FrameTooLarge"]
    ELSE LET w1 == write_all(snk, [data |-> to_le_bytes(len.val), zeros |-> Wide(0)]) IN
         IF ~w1.ok THEN [sink |-> w1.buf, code |-> "Io"]
         ELSE LET w2 == write_all(w1.buf, bytes) IN
              IF ~w2.ok THEN [sink |-> w2.buf, code |-> "Io"]
              ELSE [sink |-> w2.buf, code |-> "Ok"]

\* a sink whose write_all call number f.call (1: the prefix, 2: the payload)
\* returns an error after accepting f.n bytes of it; f.call = 0: no error
\* but that of the full buffer
NoFault == [call |-> 0, n |-> 0]

\* Write::write_all, call number `call` of a write_frame, on that sink
write_all_on(snk, bytes, call, f) ==
    IF f.call = call
    THEN [buf |-> snk \o slice_take(bytes, Min(f.n, SinkCap - Len(snk))), ok |-> FALSE]
    ELSE write_all(snk, bytes)

\* variant of write_frame_on: the result of the first write_all is dropped
write_frame_on_unchecked_prefix(snk, bytes, f) ==
    LET len == try_into_u32(slice_len(bytes)) IN
    IF ~len.ok THEN [sink |-> snk, code |-> "FrameTooLarge"]
    ELSE LET w1 == write_all_on(snk, [data |-> to_le_bytes(len.val), zeros |-> Wide(0)],
                                1, f)
             w2 == write_all_on(w1.buf, bytes, 2, f)
         IN  IF ~w2.ok THEN [sink |-> w2.buf, code |-> "Io"]
             ELSE [sink |-> w2.buf, code |-> "Ok"]

\* FramedWriter::write_frame on a sink with fault f: the sink afterwards and
\* the result code
write_frame_on(snk, bytes, f) ==
    LET len == try_into_u32(slice_len(bytes)) IN
    IF ~len.ok THEN [sink |-> snk, code |-> "FrameTooLarge"]
    ELSE LET w1 == write_all_on(snk, [data |-> to_le_bytes(len.val), zeros |-> Wide(0)],
                                1, f)
         IN  IF ~w1.ok THEN [sink |-> w1.buf, code |-> "Io"]
             ELSE LET w2 == write_all_on(w1.buf, bytes, 2, f) IN
                  IF ~w2.ok THEN [sink |-> w2.buf, code |-> "Io"]
                  ELSE [sink |-> w2.buf, code |-> "Ok"]

\* FrameSink::send_frame for FramedWriter
send_frame(snk, bytes) == write_frame(snk, bytes)

\* FramedWriter::send_bytes
send_bytes(snk, bytes) == send_frame(snk, bytes)

\* variant of write_frame_flushes: a successful write flushes the sink
write_frame_flushes_when_ok(code) == IF code = "Ok" THEN 1 ELSE 0

\* the number of times write_frame invokes the sink's flush, given its result
write_frame_flushes(code) == 0

\* FramedWriter::flush: self.inner.flush()?, on a sink whose flush succeeds;
\* n is the number of times the sink's flush was invoked before the call
flush(n) == [flushes |-> n + 1, code |-> "Ok"]

---------------------------------------------------------------------------
(* ReaderConfig *)

\* variant of DefaultConfig: the body of a frame the slice cannot hold is
\* left in the stream
DefaultConfigKeepsBody ==
    [max_frame_len |-> 64 * 1024, drain_on_small_buffer |-> FALSE,
     drain_oversize_up_to |-> 0]

\* impl Default for ReaderConfig
DefaultConfig ==
    [max_frame_len |-> 64 * 1024, drain_on_small_buffer |-> TRUE,
     drain_oversize_up_to |-> 0]

\* FramedReader::with_max
with_max(m) == [DefaultConfig EXCEPT !.max_frame_len = m]

\* limits around the lengths of the frames written: none, all but the
\* longest, all
Limits == {0, MaxLen - 1, MaxLen}

\* the configurations handed to FramedReader::with_config
Configs ==
    [max_frame_len : Limits, drain_on_small_buffer : BOOLEAN,
     drain_oversize_up_to : Limits]

---------------------------------------------------------------------------
(* FramedReader *)

\* variant of from_le_bytes: the big-endian decoding u32::from_be_bytes
from_be_bytes(b) ==
    IF b[1] >= 128 THEN 2147483647
    ELSE b[4] + 256 * b[3] + 65536 * b[2] + 16777216 * b[1]

\* u32::from_le_bytes(len_buf) as usize. A value of 2^31 or more is
\* represented by 2^31 - 1: every length it is compared with in the model
\* (configuration values, slice lengths, bytes left) is far below that.
from_le_bytes(b) ==
    IF b[4] >= 128 THEN 2147483647
    ELSE b[1] + 256 * b[2] + 65536 * b[3] + 16777216 * b[4]

\* variant of read_exact: a single Read::read, which accepts a short read and
\* leaves the rest of the buffer as it was (zeroed)
read_short(stream, p, n) ==
    IF p + n <= Len(stream)
    THEN {[ok |-> TRUE, got |-> SubSeq(stream, p + 1, p + n), pos |-> p + n]}
    ELSE {[ok |-> TRUE,
           got |-> SubSeq(stream, p + 1, Len(stream))
                   \o [i \in 1..(n - (Len(stream) - p)) |-> 0],
           pos |-> Len(stream)]}

\* Read::read_exact of n bytes at cursor p. On success the n bytes are copied
\* and the cursor advances by n. When fewer than n bytes are left the call
\* fails with UnexpectedEof; the buffer contents and the cursor are then what
\* the Read implementation makes them: nothing copied and the cursor left in
\* place, nothing copied and the cursor at the end, or the bytes left copied
\* and the cursor at the end.
read_exact(stream, p, n) ==
    IF p + n <= Len(stream)
    THEN {[ok |-> TRUE, got |-> SubSeq(stream, p + 1, p + n), pos |-> p + n]}
    ELSE {[ok |-> FALSE, got |-> <<>>, pos |-> p],
          [ok |-> FALSE, got |-> <<>>, pos |-> Len(stream)],
          [ok |-> FALSE, got |-> SubSeq(stream, p + 1, Len(stream)), pos |-> Len(stream)]}

\* variant of drain_exact: the cursor is moved len bytes ahead, past the end
\* of the stream when fewer are left
drain_exact_seeking(stream, p, len) == p + len

\* variant of drain_exact: nothing is consumed
drain_exact_skipped(stream, p, len) == p

\* FramedReader::drain_exact: io::copy of inner.take(len) into io::sink()
\* consumes len bytes, or all the bytes left when fewer are left; the cursor after
drain_exact(stream, p, len) ==
    IF len <= Len(stream) - p THEN p + len ELSE Len(stream)

\* variant of read_len: the prefix is decoded and the cursor stays before it
read_len_peek(stream, p) ==
    {IF r.ok THEN [ok |-> TRUE, len |-> from_le_bytes(r.got), pos |-> p]
             ELSE [ok |-> FALSE, len |-> 0, pos |-> r.pos]
     : r \in read_exact(stream, p, LEN_PREFIX)}

\* FramedReader::read_len
read_len(stream, p) ==
    {IF r.ok THEN [ok |-> TRUE, len |-> from_le_bytes(r.got), pos |-> r.pos]
             ELSE [ok |-> FALSE, len |-> 0, pos |-> r.pos]
     : r \in read_exact(stream, p, LEN_PREFIX)}

\* variant of Overlay: the bytes after the copied ones are zeroed
overlay_zeroing(old, got) ==
    [i \in 1..Len(old) |-> IF i <= Len(got) THEN got[i] ELSE 0]

\* bytes `got` copied over the front of `old`
Overlay(old, got) ==
    [i \in 1..Len(old) |-> IF i <= Len(got) THEN got[i] ELSE old[i]]

\* dst.clear(); dst.resize(len, 0u8)
clear_resize(d, len) == [i \in 1..len |-> 0]

\* variant of resize_capacity: the Vec is reallocated to the exact length
resize_capacity_to_fit(cap, len) == {len}

\* the capacity of a Vec of capacity cap after clear() and resize(len, 0):
\* clear keeps the allocation, resize keeps it when len fits and grows it
\* otherwise, to len or to the amortized size (twice the capacity, at least 8
\* bytes) when that is more
resize_capacity(cap, len) ==
    IF len <= cap THEN {cap}
    ELSE {len, IF 2 * cap >= len /\ 2 * cap >= 8 THEN 2 * cap
               ELSE IF len >= 8 THEN len ELSE 8}

\* the capacity of dst after a recv_into call with outcome o
capacity_after(cap, o) == IF o.resized THEN resize_capacity(cap, o.len) ELSE {cap}

\* variant of recv_into_drains: any oversize frame is drained once
\* drain_oversize_up_to is set
recv_into_drains_unbounded(c, len) == c.drain_oversize_up_to # 0

\* variant of recv_into_drains: `<` for `<=`
recv_into_drains_below(c, len) ==
    c.drain_oversize_up_to # 0 /\ len < c.drain_oversize_up_to

\* recv_into: the oversize frame's body is drained
recv_into_drains(c, len) ==
    c.drain_oversize_up_to # 0 /\ len <= c.drain_oversize_up_to

\* variant of recv_into: dst.clear() comes first, before the length is read
recv_into_clears_first(stream, p, c, d) ==
    UNION {
        IF ~l.ok
        THEN {[pos |-> l.pos, dst |-> <<>>, code |-> "Io", len |-> 0, resized |-> FALSE]}
        ELSE IF l.len > c.max_frame_len
        THEN {[pos |-> IF recv_into_drains(c, l.len)
                       THEN drain_exact(stream, l.pos, l.len) ELSE l.pos,
               dst |-> <<>>, code |-> "FrameTooLarge", len |-> l.len,
               resized |-> FALSE]}
        ELSE {[pos |-> r.pos, dst |-> Overlay(clear_resize(d, l.len), r.got),
               code |-> IF r.ok THEN "Ok" ELSE "Io", len |-> l.len, resized |-> TRUE]
              : r \in read_exact(stream, l.pos, l.len)}
        : l \in read_len(stream, p)}

\* FramedReader::recv_into: the possible outcomes [pos, dst, code, len,
\* resized]; resized tells that dst.clear(); dst.resize(len, 0) was reached
recv_into(stream, p, c, d) ==
    UNION {
        IF ~l.ok
        THEN {[pos |-> l.pos, dst |-> d, code |-> "Io", len |-> 0, resized |-> FALSE]}
        ELSE IF l.len > c.max_frame_len
        THEN {[pos |-> IF recv_into_drains(c, l.len)
                       THEN drain_exact(stream, l.pos, l.len) ELSE l.pos,
               dst |-> d, code |-> "FrameTooLarge", len |-> l.len, resized |-> FALSE]}
        ELSE {[pos |-> r.pos, dst |-> Overlay(clear_resize(d, l.len), r.got),
               code |-> IF r.ok THEN "Ok" ELSE "Io", len |-> l.len, resized |-> TRUE]
              : r \in read_exact(stream, l.pos, l.len)}
        : l \in read_len(stream, p)}

\* variant of read_frame_drains_oversize: every oversize frame is drained
read_frame_drains_any_oversize(c, len) == TRUE

\* read_frame: the oversize frame's body is drained
read_frame_drains_oversize(c, len) ==
    c.drain_oversize_up_to # 0 /\ len <= c.drain_oversize_up_to

\* variant of read_frame_too_small: `<=` for `<`
read_frame_too_small_or_exact(dlen, len) == dlen <= len

\* read_frame: the destination slice cannot hold the frame
read_frame_too_small(dlen, len) == dlen < len

\* variant of read_frame_drains_small: the body is drained whatever the flag
read_frame_always_drains_small(c) == TRUE

\* variant of read_frame_drains_small: the policy flag is ignored
read_frame_never_drains_small(c) == FALSE

\* read_frame: the body of a frame the destination cannot hold is drained
read_frame_drains_small(c) == c.drain_on_small_buffer

\* variant of read_frame: the destination-size check comes first
read_frame_size_first(stream, p, c, d) ==
    UNION {
        IF ~l.ok
        THEN {[pos |-> l.pos, dst |-> d, code |-> "Io", len |-> 0]}
        ELSE IF read_frame_too_small(Len(d), l.len)
        THEN {[pos |-> IF read_frame_drains_small(c)
                       THEN drain_exact(stream, l.pos, l.len) ELSE l.pos,
               dst |-> d, code |-> "BufferTooSmall", len |-> l.len]}
        ELSE IF l.len > c.max_frame_len
        THEN {[pos |-> IF read_frame_drains_oversize(c, l.len)
                       THEN drain_exact(stream, l.pos, l.len) ELSE l.pos,
               dst |-> d, code |-> "FrameTooLarge", len |-> l.len]}
        ELSE {[pos |-> r.pos, dst |-> Overlay(d, r.got),
               code |-> IF r.ok THEN "Ok" ELSE "Io", len |-> l.len]
              : r \in read_exact(stream, l.pos, l.len)}
        : l \in read_len(stream, p)}

\* FramedReader::read_frame: the possible outcomes [pos, dst, code, len];
\* len is the returned length on success and the declared length otherwise
read_frame(stream, p, c, d) ==
    UNION {
        IF ~l.ok
        THEN {[pos |-> l.pos, dst |-> d, code |-> "Io", len |-> 0]}
        ELSE IF l.len > c.max_frame_len
        THEN {[pos |-> IF read_frame_drains_oversize(c, l.len)
                       THEN drain_exact(stream, l.pos, l.len) ELSE l.pos,
               dst |-> d, code |-> "FrameTooLarge", len |-> l.len]}
        ELSE IF read_frame_too_small(Len(d), l.len)
        THEN {[pos |-> IF read_frame_drains_small(c)
                       THEN drain_exact(stream, l.pos, l.len) ELSE l.pos,
               dst |-> d, code |-> "BufferTooSmall", len |-> l.len]}
        ELSE {[pos |-> r.pos, dst |-> Overlay(d, r.got),
               code |-> IF r.ok THEN "Ok" ELSE "Io", len |-> l.len]
              : r \in read_exact(stream, l.pos, l.len)}
        : l \in read_len(stream, p)}

\* FrameSource::recv_frame for FramedReader
recv_frame(stream, p, c, d) == read_frame(stream, p, c, d)

---------------------------------------------------------------------------
(* Codec adapters (src/src/frame/cbor.rs, src/src/frame/postcard.rs). The   *)
(* values sent and received are of type u8. A value below 24 is one byte   *)
(* in CBOR and in postcard. FailingValue stands for a value whose          *)
(* Serialize implementation returns an error.                              *)

FailingValue == 2

\* serde_cbor::to_vec(value)
cbor_to_vec(v) ==
    IF v = FailingValue THEN [ok |-> FALSE, bytes |-> <<>>]
    ELSE [ok |-> TRUE, bytes |-> <<v>>]

\* postcard::to_extend(value, buf) on the cleared buf
postcard_to_extend(v) ==
    IF v = FailingValue THEN [ok |-> FALSE, bytes |-> <<>>]
    ELSE [ok |-> TRUE, bytes |-> <<v>>]

\* serde_cbor::from_slice::<u8>: one data item and nothing after it
cbor_from_slice(b) ==
    IF Len(b) = 1 /\ b[1] < 24 THEN [ok |-> TRUE, val |-> b[1]]
    ELSE [ok |-> FALSE, val |-> 0]

\* postcard::from_bytes::<u8>: the first byte; the bytes after it are ignored
postcard_from_bytes(b) ==
    IF Len(b) >= 1 THEN [ok |-> TRUE, val |-> b[1]]
    ELSE [ok |-> FALSE, val |-> 0]

\* FramedCborWriter::send: the sink afterwards, the result code, the payload
\* and the step that produced the result
cbor_send(snk, v) ==
    LET e == cbor_to_vec(v)
        bytes == [data |-> e.bytes, zeros |-> Wide(0)]
    IN  IF ~e.ok
        THEN [sink |-> snk, code |-> "Io", bytes |-> bytes, stage |-> "encode"]
        ELSE [sink |-> write_frame(snk, bytes).sink,
              code |-> write_frame(snk, bytes).code,
              bytes |-> bytes, stage |-> "frame"]

\* FramedPostcardWriter::send
postcard_send(snk, v) ==
    LET e == postcard_to_extend(v)
        bytes == [data |-> e.bytes, zeros |-> Wide(0)]
    IN  IF ~e.ok
        THEN [sink |-> snk, code |-> "PostcardEncode", bytes |-> bytes,
              stage |-> "encode"]
        ELSE [sink |-> write_frame(snk, bytes).sink,
              code |-> write_frame(snk, bytes).code,
              bytes |-> bytes, stage |-> "frame"]

\* variant of cbor_recv: a failed decode puts the cursor back where the call
\* found it
cbor_recv_rewinding(stream, p, c, d) ==
    {IF o.code # "Ok"
     THEN [pos |-> o.pos, dst |-> o.dst, code |-> o.code, len |-> o.len,
           resized |-> o.resized, val |-> 0, stage |-> "frame"]
     ELSE IF ~cbor_from_slice(o.dst).ok
     THEN [pos |-> p, dst |-> o.dst, code |-> "Io", len |-> o.len,
           resized |-> o.resized, val |-> 0, stage |-> "decode"]
     ELSE [pos |-> o.pos, dst |-> o.dst, code |-> "Ok", len |-> o.len,
           resized |-> o.resized, val |-> cbor_from_slice(o.dst).val, stage |-> "done"]
     : o \in recv_into(stream, p, c, d)}

\* FramedCborReader::recv: the possible outcomes [pos, dst, code, len, val,
\* stage]; dst is the reader's own buf
cbor_recv(stream, p, c, d) ==
    {IF o.code # "Ok"
     THEN [pos |-> o.pos, dst |-> o.dst, code |-> o.code, len |-> o.len,
           resized |-> o.resized, val |-> 0, stage |-> "frame"]
     ELSE IF ~cbor_from_slice(o.dst).ok
     THEN [pos |-> o.pos, dst |-> o.dst, code |-> "Io", len |-> o.len,
           resized |-> o.resized, val |-> 0, stage |-> "decode"]
     ELSE [pos |-> o.pos, dst |-> o.dst, code |-> "Ok", len |-> o.len,
           resized |-> o.resized, val |-> cbor_from_slice(o.dst).val, stage |-> "done"]
     : o \in recv_into(stream, p, c, d)}

\* FramedPostcardReader::recv
postcard_recv(stream, p, c, d) ==
    {IF o.code # "Ok"
     THEN [pos |-> o.pos, dst |-> o.dst, code |-> o.code, len |-> o.len,
           resized |-> o.resized, val |-> 0, stage |-> "frame"]
     ELSE IF ~postcard_from_bytes(o.dst).ok
     THEN [pos |-> o.pos, dst |-> o.dst, code |-> "PostcardDecode",
           len |-> o.len, resized |-> o.resized, val |-> 0, stage |-> "decode"]
     ELSE [pos |-> o.pos, dst |-> o.dst, code |-> "Ok", len |-> o.len,
           resized |-> o.resized, val |-> postcard_from_bytes(o.dst).val, stage |-> "done"]
     : o \in recv_into(stream, p, c, d)}

---------------------------------------------------------------------------
(* Inputs of the calls. *)

\* the values handed to a codec send
Values == {0, 1, FailingValue}

\* the entry of sentVal for a payload no codec send encoded
Raw == 255

\* n bytes alternating between 0 and 1, the first one being b
Bytes(b, n) == [i \in 1..n |-> (b + i + 1) % 2]

\* payloads written whole, a payload one byte too long for the empty sink
\* (its frame is torn wherever it is written), and two payloads around the
\* u32 limit
Payloads ==
    {[data |-> Bytes(b, n), zeros |-> Wide(0)] : b \in {0, 1}, n \in 0..MaxLen}
    \cup {[data |-> Bytes(0, SinkCap - 3), zeros |-> Wide(0)]}
    \cup {[data |-> <<>>, zeros |-> U32_MAX],
          [data |-> <<>>, zeros |-> WidePlus(U32_MAX, 1)]}

\* the caller's Vec<u8> before the first recv_into, holding old bytes
InitialDsts == {<<201, 202, 203>>}

\* a destination slice of n bytes, each holding a value no payload holds
FreshSlice(n) == [i \in 1..n |-> 210 + i]

---------------------------------------------------------------------------
(* The state machine. *)

Init ==
    /\ phase = "write"
    /\ sink = <<>>
    /\ sinkBefore = <<>>
    /\ wlog = <<>>
    /\ sent = <<>>
    /\ sentVal = <<>>
    /\ sinkFlushes = 0
    /\ flushCalls = 0
    /\ ctor = "none"
    /\ ctorArg = 0
    /\ cfg = DefaultConfig
    /\ pos = 0
    /\ dst = <<>>
    /\ dstCap = 0
    /\ dstBefore = <<>>
    /\ buf = <<>>
    /\ rlog = <<>>

readerVars == <<ctor, ctorArg, cfg, pos, dst, dstCap, dstBefore, buf, rlog>>

writerVars == <<sink, sinkBefore, wlog, sent, sentVal, sinkFlushes, flushCalls>>

\* the effect of the write call `op` with payload `bytes` and outcome w
Wrote(op, bytes, w) ==
    /\ sink' = w.sink
    /\ sinkBefore' = sink
    /\ wlog' = Append(wlog, [op |-> op, bytes |-> bytes, code |-> w.code])
    /\ sent' = IF w.code = "Ok" THEN Append(sent, bytes.data) ELSE sent
    /\ sentVal' = IF w.code = "Ok" THEN Append(sentVal, Raw) ELSE sentVal
    /\ sinkFlushes' = sinkFlushes + write_frame_flushes(w.code)
    /\ UNCHANGED <<phase, flushCalls, readerVars>>

\* writer.write_frame(bytes)
CallWriteFrame ==
    /\ phase = "write"
    /\ Len(wlog) < MaxFrames
    /\ \E bytes \in Payloads : Wrote("write_frame", bytes, write_frame(sink, bytes))

\* writer.send_frame(bytes)
CallSendFrame ==
    /\ phase = "write"
    /\ Len(wlog) < MaxFrames
    /\ \E bytes \in Payloads : Wrote("send_frame", bytes, send_frame(sink, bytes))

\* writer.send_bytes(bytes)
CallSendBytes ==
    /\ phase = "write"
    /\ Len(wlog) < MaxFrames
    /\ \E bytes \in Payloads : Wrote("send_bytes", bytes, send_bytes(sink, bytes))

\* writer.flush()
CallFlush ==
    /\ phase = "write"
    /\ flushCalls < MaxFlushes
    /\ flushCalls' = flushCalls + 1
    /\ sinkFlushes' = flush(sinkFlushes).flushes
    /\ UNCHANGED <<sink, sinkBefore, wlog, sent, sentVal, phase, readerVars>>

\* the writer is dropped (its call history ends with it) and the reader
\* starts on a cursor over the written bytes, at position 0
Start(how, c) ==
    /\ phase = "write"
    /\ phase' = "read"
    /\ ctor' = how
    /\ cfg' = c
    /\ pos' = 0
    /\ \E d \in InitialDsts : dst' = d /\ dstCap' = Len(d)
    /\ sinkBefore' = <<>>
    /\ wlog' = <<>>
    /\ UNCHANGED <<sink, sent, sentVal, sinkFlushes, flushCalls, dstBefore, buf, rlog>>

\* FramedReader::new(Cursor::new(buffer))
NewReader == Start("new", DefaultConfig) /\ UNCHANGED ctorArg

\* FramedReader::with_max(Cursor::new(buffer), m)
NewReaderWithMax == \E m \in Limits : Start("with_max", with_max(m)) /\ ctorArg' = m

\* FramedReader::with_config(Cursor::new(buffer), cfg)
NewReaderWithConfig == \E c \in Configs : Start("with_config", c) /\ UNCHANGED ctorArg

\* reader.recv_into(&mut dst)
CallRecvInto ==
    /\ phase = "read"
    /\ Len(rlog) < MaxReads
    /\ \E o \in recv_into(sink, pos, cfg, dst) :
         /\ pos' = o.pos
         /\ dst' = o.dst
         /\ dstCap' \in capacity_after(dstCap, o)
         /\ rlog' = Append(rlog, [op |-> "recv_into", code |-> o.code, len |-> o.len,
                                   at |-> pos, dlen |-> Len(dst)])
    /\ dstBefore' = dst
    /\ UNCHANGED <<phase, writerVars, ctor, ctorArg, cfg, buf>>

\* reader.read_frame(&mut slice) on a slice of n bytes
CallReadFrame ==
    /\ phase = "read"
    /\ Len(rlog) < MaxReads
    /\ \E n \in Limits :
         \E o \in read_frame(sink, pos, cfg, FreshSlice(n)) :
              /\ pos' = o.pos
              /\ buf' = o.dst
              /\ rlog' = Append(rlog, [op |-> "read_frame", code |-> o.code, len |-> o.len,
                                        at |-> pos, dlen |-> n])
    /\ UNCHANGED <<phase, writerVars, ctor, ctorArg, cfg, dst, dstCap, dstBefore>>

Next ==
    \/ CallWriteFrame
    \/ NewReader
    \/ NewReaderWithMax
    \/ NewReaderWithConfig
    \/ CallRecvInto
    \/ CallReadFrame

Spec == Init /\ [][Next]_vars

---------------------------------------------------------------------------
(* The codec adapters over the same buffer: frames are written by          *)
(* FramedCborWriter / FramedPostcardWriter (and by a plain FramedWriter,    *)
(* whose payloads need not decode), then read by one codec reader.         *)

\* the effect of the codec send `op` of value v with outcome w
Sent(op, v, w) ==
    /\ sink' = w.sink
    /\ sinkBefore' = sink
    /\ wlog' = Append(wlog, [op |-> op, bytes |-> w.bytes, code |-> w.code,
                              val |-> v, stage |-> w.stage])
    /\ sent' = IF w.code = "Ok" THEN Append(sent, w.bytes.data) ELSE sent
    /\ sentVal' = IF w.code = "Ok" THEN Append(sentVal, v) ELSE sentVal
    /\ sinkFlushes' = sinkFlushes + write_frame_flushes(w.code)
    /\ UNCHANGED <<phase, flushCalls, readerVars>>

\* FramedCborWriter::new(&mut buffer).send(&v)
CallCborSend ==
    /\ phase = "write"
    /\ Len(wlog) < MaxFrames
    /\ \E v \in Values : Sent("cbor_send", v, cbor_send(sink, v))

\* FramedPostcardWriter::new(&mut buffer).send(&v)
CallPostcardSend ==
    /\ phase = "write"
    /\ Len(wlog) < MaxFrames
    /\ \E v \in Values : Sent("postcard_send", v, postcard_send(sink, v))

\* the writers are dropped and a codec reader starts on a cursor over the
\* written bytes, with buf: Vec::new()
StartCodec(how, c) ==
    /\ phase = "write"
    /\ phase' = "read"
    /\ ctor' = how
    /\ cfg' = c
    /\ pos' = 0
    /\ dst' = <<>>
    /\ dstCap' = 0
    /\ sinkBefore' = <<>>
    /\ wlog' = <<>>
    /\ UNCHANGED <<sink, sent, sentVal, sinkFlushes, flushCalls, ctorArg, dstBefore, buf, rlog>>

\* FramedCborReader::new(Cursor::new(buffer))
NewCborReader == StartCodec("cbor_new", DefaultConfig)

\* FramedCborReader::with_inner(FramedReader::with_config(Cursor::new(buffer), c))
NewCborReaderWithInner == \E c \in Configs : StartCodec("cbor_with_inner", c)

\* FramedPostcardReader::new(Cursor::new(buffer))
NewPostcardReader == StartCodec("postcard_new", DefaultConfig)

\* FramedPostcardReader::with_inner(FramedReader::with_config(Cursor::new(buffer), c))
NewPostcardReaderWithInner == \E c \in Configs : StartCodec("postcard_with_inner", c)

\* the effect of the codec recv `op` with outcome o
Received(op, o) ==
    /\ pos' = o.pos
    /\ dst' = o.dst
    /\ dstCap' \in capacity_after(dstCap, o)
    /\ rlog' = Append(rlog, [op |-> op, code |-> o.code, len |-> o.len, at |-> pos,
                              dlen |-> Len(dst), val |-> o.val, stage |-> o.stage])
    /\ dstBefore' = dst
    /\ UNCHANGED <<phase, writerVars, ctor, ctorArg, cfg, buf>>

\* reader.recv::<u8>() on a FramedCborReader
CallCborRecv ==
    /\ phase = "read"
    /\ ctor \in {"cbor_new", "cbor_with_inner"}
    /\ Len(rlog) < MaxReads
    /\ \E o \in cbor_recv(sink, pos, cfg, dst) : Received("cbor_recv", o)

\* reader.recv::<u8>() on a FramedPostcardReader
CallPostcardRecv ==
    /\ phase = "read"
    /\ ctor \in {"postcard_new", "postcard_with_inner"}
    /\ Len(rlog) < MaxReads
    /\ \E o \in postcard_recv(sink, pos, cfg, dst) : Received("postcard_recv", o)

NextCodec ==
    \/ CallWriteFrame
    \/ CallCborSend
    \/ CallPostcardSend
    \/ NewCborReader
    \/ NewCborReaderWithInner
    \/ NewPostcardReader
    \/ NewPostcardReaderWithInner
    \/ CallCborRecv
    \/ CallPostcardRecv

SpecCodec == Init /\ [][NextCodec]_vars

---------------------------------------------------------------------------
(* The two write entry points beside write_frame and the two read paths,   *)
(* recv_into and the FrameSource entry point recv_frame.                   *)

\* reader.recv_frame(&mut slice) on a slice of n bytes
CallRecvFrame ==
    /\ phase = "read"
    /\ Len(rlog) < MaxReads
    /\ \E n \in Limits :
         \E o \in recv_frame(sink, pos, cfg, FreshSlice(n)) :
              /\ pos' = o.pos
              /\ buf' = o.dst
              /\ rlog' = Append(rlog, [op |-> "recv_frame", code |-> o.code, len |-> o.len,
                                        at |-> pos, dlen |-> n])
    /\ UNCHANGED <<phase, writerVars, ctor, ctorArg, cfg, dst, dstCap, dstBefore>>

NextPaths ==
    \/ CallWriteFrame
    \/ CallSendFrame
    \/ CallSendBytes
    \/ NewReader
    \/ NewReaderWithMax
    \/ NewReaderWithConfig
    \/ CallRecvInto
    \/ CallRecvFrame

SpecPaths == Init /\ [][NextPaths]_vars

---------------------------------------------------------------------------
(* The writer on a sink that can fail in the middle of a write.            *)

\* the points at which the sink can fail during write_frame(bytes): in the
\* prefix after 0 to 3 bytes, in a non-empty payload before its last byte
Faults(bytes) ==
    {NoFault}
    \cup {[call |-> 1, n |-> n] : n \in 0..(LEN_PREFIX - 1)}
    \cup {[call |-> 2, n |-> n] : n \in 0..(Len(bytes.data) - 1)}

\* writer.write_frame(bytes) on a sink with fault f
CallWriteFrameOn ==
    /\ phase = "write"
    /\ Len(wlog) < MaxFrames
    /\ \E bytes \in Payloads : \E f \in Faults(bytes) :
         LET w == write_frame_on(sink, bytes, f) IN
         /\ sink' = w.sink
         /\ sinkBefore' = sink
         /\ wlog' = Append(wlog, [op |-> "write_frame", bytes |-> bytes,
                                   code |-> w.code, fault |-> f])
         /\ sent' = IF w.code = "Ok" THEN Append(sent, bytes.data) ELSE sent
         /\ sentVal' = IF w.code = "Ok" THEN Append(sentVal, Raw) ELSE sentVal
         /\ sinkFlushes' = sinkFlushes + write_frame_flushes(w.code)
    /\ UNCHANGED <<phase, flushCalls, readerVars>>

NextTorn == CallWriteFrameOn

SpecTorn == Init /\ [][NextTorn]_vars

\* the writer alone: every call of FramedWriter, flush included
NextWriter ==
    \/ CallWriteFrame
    \/ CallSendFrame
    \/ CallSendBytes
    \/ CallFlush

SpecWriter == Init /\ [][NextWriter]_vars

---------------------------------------------------------------------------
(* Vocabulary of the properties: the wire format as the specification      *)
(* states it, and the frames the stream holds.                             *)

\* n as a 4-byte little-endian unsigned integer
Le4(n) ==
    <<n % 256, (n \div 256) % 256, (n \div 65536) % 256, (n \div 16777216) % 256>>

\* stream := frame*, frame := length(4 bytes, little-endian) payload
RECURSIVE Wire(_)
Wire(fs) ==
    IF fs = <<>> THEN <<>>
    ELSE Le4(Len(Head(fs))) \o Head(fs) \o Wire(Tail(fs))

\* the offset of the length field of frame k + 1 (the end of the stream
\* when k frames were written)
FrameStart(k) == Len(Wire(SubSeq(sent, 1, k)))

\* the stream is a concatenation of complete frames
Complete == sink = Wire(sent)

\* the last write call and the last read call
LastWrite == wlog[Len(wlog)]
LastRead == rlog[Len(rlog)]

\* the cursor when read call i returned
PosAfter(i) == IF i = Len(rlog) THEN pos ELSE rlog[i + 1].at

\* read call e started at the length field of frame j
StartsFrame(e, j) == j \in 1..Len(sent) /\ e.at = FrameStart(j - 1)

\* the payload the last read call handed to the caller
Returned == IF LastRead.op = "recv_into" THEN dst ELSE SubSeq(buf, 1, LastRead.len)

\* the slice handed to read call e before the call
SliceBefore(e) == FreshSlice(e.dlen)

\* read call e succeeded, or failed with a rejection whose body was drained
Recovered(e) ==
    \/ e.code = "Ok"
    \/ e.code = "BufferTooSmall" /\ cfg.drain_on_small_buffer
    \/ /\ e.code = "FrameTooLarge"
       /\ cfg.drain_oversize_up_to # 0
       /\ e.len <= cfg.drain_oversize_up_to

---------------------------------------------------------------------------
\* C1: on a stream that is a concatenation of complete frames, after any
\* sequence of read calls each of which succeeded or failed with a drained
\* rejection, the cursor is at the start of the next frame's length field
\* (at the end of the stream when no frame follows).
C1_Alignment ==
    (/\ phase = "read"
     /\ Complete
     /\ \A i \in 1..Len(rlog) : Recovered(rlog[i]))
    => /\ Len(rlog) <= Len(sent)
       /\ pos = FrameStart(Len(rlog))

\* an oversize frame and a frame too long for the slice, both drained
C1_Witness ==
    /\ phase = "read"
    /\ Complete
    /\ Len(rlog) = 2
    /\ rlog[1].code = "FrameTooLarge" /\ Recovered(rlog[1])
    /\ rlog[2].code = "BufferTooSmall" /\ Recovered(rlog[2])
    /\ pos = Len(sink)

\* C2: a payload b with 0 <= len(b) <= max_frame_len that was written comes
\* back unchanged from a read at its frame: recv_into succeeds and leaves
\* dst = b whatever dst held before, read_frame into a slice of at least
\* len(b) bytes returns len(b) with b in the first len(b) bytes.
C2_RoundTrip ==
    \A j \in 1..Len(sent) :
        (/\ phase = "read"
         /\ Len(rlog) >= 1
         /\ StartsFrame(LastRead, j)
         /\ Len(sent[j]) <= cfg.max_frame_len)
        => /\ LastRead.op = "recv_into" =>
                LastRead.code = "Ok" /\ dst = sent[j]
           /\ (LastRead.op = "read_frame" /\ LastRead.dlen >= Len(sent[j])) =>
                /\ LastRead.code = "Ok"
                /\ LastRead.len = Len(sent[j])
                /\ SubSeq(buf, 1, Len(sent[j])) = sent[j]

\* a frame of exactly max_frame_len bytes read into a Vec that held more
\* bytes than the frame has
C2_Witness ==
    /\ phase = "read"
    /\ Len(rlog) = 1
    /\ Len(sent) >= 1
    /\ Len(sent[1]) = cfg.max_frame_len
    /\ Len(sent[1]) = MaxLen
    /\ LastRead.op = "recv_into"
    /\ Len(dstBefore) > Len(sent[1])
    /\ dst = sent[1]

\* C3: N frames of at most max_frame_len bytes, written and then read with N
\* read calls, come back in the order written: the i-th read returns exactly
\* the i-th frame.
C3_Sequencing ==
    LET k == Len(rlog) IN
    (/\ phase = "read"
     /\ k \in 1..Len(sent)
     /\ \A i \in 1..Len(sent) : Len(sent[i]) <= cfg.max_frame_len
     /\ \A i \in 1..(k - 1) : rlog[i].code = "Ok"
     /\ LastRead.op = "read_frame" => LastRead.dlen >= Len(sent[k]))
    => /\ LastRead.code = "Ok"
       /\ Returned = sent[k]
       /\ LastRead.op = "read_frame" => LastRead.len = Len(sent[k])

\* an empty frame, then a frame of MaxLen bytes, read by one call of each kind
C3_Witness ==
    /\ phase = "read"
    /\ Len(rlog) = 2
    /\ Len(sent) = 2
    /\ sent[1] = <<>>
    /\ Len(sent[2]) = MaxLen
    /\ rlog[1].op = "recv_into" /\ rlog[1].code = "Ok"
    /\ rlog[2].op = "read_frame" /\ rlog[2].code = "Ok"
    /\ Returned = sent[2]

\* C4: with drain_on_small_buffer = true, read_frame with a slice shorter
\* than the length L of a complete within-limit frame fails with
\* BufferTooSmall having consumed exactly 4 + L bytes, and the next read_frame
\* with a slice that holds the following (within-limit) frame returns that
\* frame unchanged.
C4_SmallBufferDrain ==
    /\ \A i \in 1..Len(rlog) : \A j \in 1..Len(sent) :
         (/\ rlog[i].op = "read_frame"
          /\ cfg.drain_on_small_buffer
          /\ StartsFrame(rlog[i], j)
          /\ Len(sent[j]) <= cfg.max_frame_len
          /\ rlog[i].dlen < Len(sent[j]))
         => /\ rlog[i].code = "BufferTooSmall"
            /\ PosAfter(i) = rlog[i].at + 4 + Len(sent[j])
    /\ \A j \in 1..(Len(sent) - 1) :
         (/\ Len(rlog) >= 2
          /\ rlog[Len(rlog) - 1].op = "read_frame"
          /\ cfg.drain_on_small_buffer
          /\ StartsFrame(rlog[Len(rlog) - 1], j)
          /\ Len(sent[j]) <= cfg.max_frame_len
          /\ rlog[Len(rlog) - 1].dlen < Len(sent[j])
          /\ LastRead.op = "read_frame"
          /\ Len(sent[j + 1]) <= cfg.max_frame_len
          /\ LastRead.dlen >= Len(sent[j + 1]))
         => /\ LastRead.code = "Ok"
            /\ LastRead.len = Len(sent[j + 1])
            /\ SubSeq(buf, 1, LastRead.len) = sent[j + 1]

\* the first frame is rejected for a short slice, the second one is returned
C4_Witness ==
    /\ phase = "read"
    /\ cfg.drain_on_small_buffer
    /\ Len(rlog) = 2
    /\ Len(sent) = 2
    /\ rlog[1].op = "read_frame" /\ rlog[1].code = "BufferTooSmall"
    /\ rlog[2].at = 4 + Len(sent[1])
    /\ rlog[2].op = "read_frame" /\ rlog[2].code = "Ok"
    /\ Len(sent[2]) >= 1
    /\ SubSeq(buf, 1, rlog[2].len) = sent[2]

\* C5: when a complete frame declares max_frame_len < L <= drain_oversize_up_to,
\* recv_into and read_frame fail with FrameTooLarge having consumed the
\* prefix and exactly the L body bytes, and the following read returns the
\* next frame.
C5_OversizeDrain ==
    /\ \A i \in 1..Len(rlog) : \A j \in 1..Len(sent) :
         (/\ StartsFrame(rlog[i], j)
          /\ Len(sent[j]) > cfg.max_frame_len
          /\ Len(sent[j]) <= cfg.drain_oversize_up_to)
         => /\ rlog[i].code = "FrameTooLarge"
            /\ PosAfter(i) = rlog[i].at + 4 + Len(sent[j])
    /\ \A j \in 1..(Len(sent) - 1) :
         (/\ Len(rlog) >= 2
          /\ StartsFrame(rlog[Len(rlog) - 1], j)
          /\ Len(sent[j]) > cfg.max_frame_len
          /\ Len(sent[j]) <= cfg.drain_oversize_up_to
          /\ Len(sent[j + 1]) <= cfg.max_frame_len
          /\ LastRead.op = "read_frame" => LastRead.dlen >= Len(sent[j + 1]))
         => /\ LastRead.code = "Ok"
            /\ Returned = sent[j + 1]

\* recv_into rejects and drains an oversize frame, the next frame is returned
C5_Witness ==
    /\ phase = "read"
    /\ Len(rlog) = 2
    /\ Len(sent) = 2
    /\ Len(sent[1]) > cfg.max_frame_len
    /\ Len(sent[1]) = cfg.drain_oversize_up_to
    /\ rlog[1].op = "recv_into" /\ rlog[1].code = "FrameTooLarge"
    /\ rlog[2].at = 4 + Len(sent[1])
    /\ rlog[2].code = "Ok"
    /\ Len(sent[2]) >= 1
    /\ Returned = sent[2]

\* C6: when a frame the writer accepted declares L > max_frame_len and
\* drain_oversize_up_to = 0, recv_into and read_frame fail with FrameTooLarge
\* having consumed only the 4 prefix bytes: the L body bytes remain unread.
C6_OversizeNoDrain ==
    \A i \in 1..Len(rlog) : \A j \in 1..Len(sent) :
        (/\ StartsFrame(rlog[i], j)
         /\ Len(sent[j]) > cfg.max_frame_len
         /\ cfg.drain_oversize_up_to = 0)
        => /\ rlog[i].code = "FrameTooLarge"
           /\ PosAfter(i) = rlog[i].at + 4
           /\ SubSeq(sink, PosAfter(i) + 1, PosAfter(i) + Len(sent[j])) = sent[j]

\* read_frame rejects an oversize frame without draining it, although
\* drain_on_small_buffer is set and the slice is shorter than the frame
C6_Witness ==
    /\ phase = "read"
    /\ Len(rlog) = 1
    /\ Len(sent) >= 1
    /\ Len(sent[1]) > cfg.max_frame_len
    /\ cfg.drain_oversize_up_to = 0
    /\ cfg.drain_on_small_buffer
    /\ LastRead.op = "read_frame"
    /\ LastRead.dlen < Len(sent[1])
    /\ LastRead.code = "FrameTooLarge"
    /\ pos = 4

\* C7: for a complete within-limit frame of length L, read_frame succeeds and
\* returns L iff the slice has at least L bytes; a slice of L - 1 bytes fails
\* with BufferTooSmall.
C7_LengthBoundary ==
    \A i \in 1..Len(rlog) : \A j \in 1..Len(sent) :
        (/\ rlog[i].op = "read_frame"
         /\ StartsFrame(rlog[i], j)
         /\ Len(sent[j]) <= cfg.max_frame_len)
        => /\ rlog[i].code = "Ok" <=> rlog[i].dlen >= Len(sent[j])
           /\ rlog[i].code = "Ok" => rlog[i].len = Len(sent[j])
           /\ rlog[i].dlen < Len(sent[j]) => rlog[i].code = "BufferTooSmall"

\* a slice one byte short is rejected, a slice of exactly L bytes is filled
C7_Witness ==
    /\ phase = "read"
    /\ Len(rlog) = 2
    /\ rlog[1].op = "read_frame" /\ rlog[1].code = "BufferTooSmall"
    /\ rlog[1].dlen = rlog[1].len - 1
    /\ rlog[2].op = "read_frame" /\ rlog[2].code = "Ok"
    /\ rlog[2].dlen = rlog[2].len
    /\ rlog[2].len >= 1

\* C8: when fewer than 4 bytes are left in the stream (none at all included),
\* recv_into and read_frame fail with the code Io, and the destination is not
\* modified.
C8_ShortPrefix ==
    /\ \A i \in 1..Len(rlog) :
         Len(sink) - rlog[i].at < 4 => rlog[i].code = "Io"
    /\ (Len(rlog) >= 1 /\ Len(sink) - LastRead.at < 4) =>
         /\ LastRead.op = "recv_into" => dst = dstBefore
         /\ LastRead.op = "read_frame" => buf = SliceBefore(LastRead)

\* recv_into on a stream whose last 1 to 3 bytes are a partial prefix
C8_Witness ==
    /\ phase = "read"
    /\ Len(rlog) >= 1
    /\ Len(sink) - LastRead.at \in 1..3
    /\ LastRead.op = "recv_into"
    /\ LastRead.code = "Io"
    /\ Len(dst) > 0

\* C9: a successful write_frame(b) appends exactly len(b) as a 4-byte
\* little-endian integer followed by the bytes of b; after only successful
\* calls the sink holds the concatenation of these encodings in call order.
C9_WireFormat ==
    /\ (Len(wlog) >= 1 /\ LastWrite.code = "Ok") =>
         sink = sinkBefore \o Le4(Len(LastWrite.bytes.data)) \o LastWrite.bytes.data
    /\ (phase = "write" /\ \A i \in 1..Len(wlog) : wlog[i].code = "Ok") =>
         sink = Wire([i \in 1..Len(wlog) |-> wlog[i].bytes.data])

\* two successful writes of different non-empty payloads
C9_Witness ==
    /\ Len(wlog) = 2
    /\ wlog[1].code = "Ok" /\ wlog[2].code = "Ok"
    /\ Len(wlog[1].bytes.data) = 2
    /\ Len(wlog[2].bytes.data) = 1
    /\ Len(sink) = 4 + 2 + 4 + 1

\* the length of a payload exceeds 2^32 - 1
ExceedsU32(bytes) == slice_len(bytes).hi >= 65536

\* C10: write_frame on a payload longer than 2^32 - 1 bytes returns
\* FrameTooLarge and writes nothing; no other payload is rejected: the write
\* of a payload of at most 2^32 - 1 bytes is carried out (it succeeds, or it
\* fails with Io when the sink does), whatever max_frame_len a reader has.
C10_WriterLimit ==
    Len(wlog) >= 1 =>
        /\ ExceedsU32(LastWrite.bytes) =>
             LastWrite.code = "FrameTooLarge" /\ sink = sinkBefore
        /\ ~ExceedsU32(LastWrite.bytes) =>
             /\ LastWrite.code \in {"Ok", "Io"}
             /\ SubSeq(sink, 1, Len(sinkBefore)) = sinkBefore
             /\ SubSeq(sink, Len(sinkBefore) + 1, Min(Len(sink), Len(sinkBefore) + 4))
                  = SubSeq(to_le_bytes(slice_len(LastWrite.bytes)), 1,
                           Min(Len(sink), Len(sinkBefore) + 4) - Len(sinkBefore))
             /\ Len(sinkBefore) < SinkCap => Len(sink) > Len(sinkBefore)

\* a payload of 2^32 bytes is rejected after a frame was written
C10_Witness ==
    /\ Len(wlog) = 2
    /\ wlog[1].code = "Ok"
    /\ ExceedsU32(LastWrite.bytes)
    /\ LastWrite.code = "FrameTooLarge"
    /\ Len(sinkBefore) > 0
    /\ sink = sinkBefore

---------------------------------------------------------------------------
\* C11: no implicit flush: after any sequence of write_frame, send_frame,
\* send_bytes and flush calls on a FramedWriter, the sink's flush has been
\* invoked exactly once per flush() call, hence never by a write call.
C11_NoImplicitFlush == sinkFlushes = flushCalls

\* a successful write, a flush, a write the full sink tears, a flush
C11_Witness ==
    /\ Len(wlog) = 2
    /\ wlog[1].code = "Ok"
    /\ wlog[2].code = "Io"
    /\ flushCalls = 2
    /\ sinkFlushes = 2

\* the codes of the framing layer
FramingCodes == {"Io", "BufferTooSmall", "FrameTooLarge"}

\* a codec send whose encode step failed, a codec recv whose decode step failed
EncodeFailed(e) == e.op \in {"cbor_send", "postcard_send"} /\ e.stage = "encode"
DecodeFailed(e) == e.op \in {"cbor_recv", "postcard_recv"} /\ e.stage = "decode"

\* C12: when the encode function of a codec adapter fails in send, or its
\* decode function fails in recv, the error carries a code that is none of Io,
\* BufferTooSmall and FrameTooLarge, for the CBOR adapter and for the
\* postcard adapter. The CBOR adapter returns Io in both cases.
C12_AdapterCodes ==
    /\ \A i \in 1..Len(wlog) : EncodeFailed(wlog[i]) => wlog[i].code \notin FramingCodes
    /\ \A i \in 1..Len(rlog) : DecodeFailed(rlog[i]) => rlog[i].code \notin FramingCodes

\* C13: when a codec recv fails because the payload of a complete
\* within-limit frame does not decode, the frame has been consumed whole
\* (4 + L bytes), and the next recv returns the value the following frame
\* carries (a frame a codec send wrote, within the limit).
C13_DecodeRecovery ==
    /\ \A i \in 1..Len(rlog) : \A j \in 1..Len(sent) :
         (DecodeFailed(rlog[i]) /\ StartsFrame(rlog[i], j))
         => PosAfter(i) = rlog[i].at + 4 + Len(sent[j])
    /\ \A j \in 1..(Len(sent) - 1) :
         (/\ Len(rlog) >= 2
          /\ DecodeFailed(rlog[Len(rlog) - 1])
          /\ StartsFrame(rlog[Len(rlog) - 1], j)
          /\ sentVal[j + 1] # Raw
          /\ Len(sent[j + 1]) <= cfg.max_frame_len)
         => /\ LastRead.code = "Ok"
            /\ LastRead.val = sentVal[j + 1]

\* a frame of two bytes that is no CBOR value, then a frame a send wrote
C13_Witness ==
    /\ phase = "read"
    /\ Len(rlog) = 2
    /\ Len(sent) = 2
    /\ Len(sent[1]) = 2
    /\ sentVal[2] = 1
    /\ rlog[1].op = "cbor_recv" /\ DecodeFailed(rlog[1])
    /\ rlog[2].at = 6
    /\ rlog[2].code = "Ok"
    /\ rlog[2].val = 1

\* C14: a reader built with FramedReader::new has max_frame_len = 65536,
\* drain_on_small_buffer = true and drain_oversize_up_to = 0; with_max(m)
\* differs only in max_frame_len = m. Hence for such a reader a
\* BufferTooSmall rejection has drained the frame body (all of it, or what
\* the stream had left of it) and a FrameTooLarge rejection has consumed the
\* 4 prefix bytes only.
C14_DefaultPolicy ==
    /\ ctor = "new" =>
         cfg = [max_frame_len |-> 65536, drain_on_small_buffer |-> TRUE,
                drain_oversize_up_to |-> 0]
    /\ ctor = "with_max" =>
         cfg = [max_frame_len |-> ctorArg, drain_on_small_buffer |-> TRUE,
                drain_oversize_up_to |-> 0]
    /\ \A i \in 1..Len(rlog) :
         ctor \in {"new", "with_max"} =>
           /\ rlog[i].code = "BufferTooSmall" =>
                PosAfter(i) = Min(rlog[i].at + 4 + rlog[i].len, Len(sink))
           /\ rlog[i].code = "FrameTooLarge" => PosAfter(i) = rlog[i].at + 4

\* with_max(MaxLen - 1): a frame too long for the slice is drained, the
\* oversize frame after it is not
C14_Witness ==
    /\ phase = "read"
    /\ ctor = "with_max"
    /\ ctorArg = MaxLen - 1
    /\ Len(sent) = 2
    /\ Len(rlog) = 2
    /\ rlog[1].code = "BufferTooSmall"
    /\ rlog[2].at = 4 + Len(sent[1])
    /\ Len(sent[1]) >= 1
    /\ rlog[2].code = "FrameTooLarge"
    /\ pos = rlog[2].at + 4
    /\ pos < Len(sink)

\* C15: across any sequence of recv_into calls on the same Vec, successful
\* or failed, for frames of any lengths in any order, the capacity of the
\* Vec never decreases.
C15_CapacityMonotone == [][dstCap' >= dstCap]_vars

\* a frame of one byte received into the Vec that held a frame of two bytes
C15_Witness ==
    /\ phase = "read"
    /\ Len(rlog) = 2
    /\ rlog[1].code = "Ok" /\ rlog[1].len = 2
    /\ rlog[2].code = "Ok" /\ rlog[2].len = 1
    /\ Len(dst) = 1
    /\ dstCap = 2

---------------------------------------------------------------------------
\* the stream holds a whole length prefix at offset a
HasPrefix(a) == Len(sink) - a >= 4

\* the length L the 4 bytes at offset a declare (2^31 - 1 for any length of
\* 2^31 or more)
Declared(a) ==
    IF sink[a + 4] >= 128 THEN 2147483647
    ELSE sink[a + 1] + 256 * sink[a + 2] + 65536 * sink[a + 3] + 16777216 * sink[a + 4]

\* the policy drains an oversize frame of length L
DrainsOversize(L) == cfg.drain_oversize_up_to # 0 /\ L <= cfg.drain_oversize_up_to

\* the bytes of the stream after the prefix at offset a
BodyLeft(a) == Len(sink) - (a + 4)

\* C16: read_frame checks max_frame_len before the size of the destination:
\* when L > max_frame_len and the slice is shorter than L the error is
\* FrameTooLarge, and unless the oversize policy drains the frame only the 4
\* prefix bytes are consumed, whatever drain_on_small_buffer is;
\* BufferTooSmall is returned only for frames with L <= max_frame_len.
C16_CheckOrder ==
    \A i \in 1..Len(rlog) :
        (rlog[i].op = "read_frame" /\ HasPrefix(rlog[i].at)) =>
            LET L == Declared(rlog[i].at) IN
            /\ (L > cfg.max_frame_len /\ rlog[i].dlen < L) =>
                 /\ rlog[i].code = "FrameTooLarge"
                 /\ ~DrainsOversize(L) => PosAfter(i) = rlog[i].at + 4
            /\ rlog[i].code = "BufferTooSmall" => L <= cfg.max_frame_len

\* an oversize frame longer than the slice and than drain_oversize_up_to,
\* read with drain_on_small_buffer = true
C16_Witness ==
    /\ phase = "read"
    /\ cfg.drain_on_small_buffer
    /\ cfg.drain_oversize_up_to = MaxLen - 1
    /\ Len(rlog) = 1
    /\ Len(sent) >= 1
    /\ Len(sent[1]) = MaxLen
    /\ Len(sent[1]) > cfg.max_frame_len
    /\ LastRead.op = "read_frame"
    /\ LastRead.dlen = MaxLen - 1
    /\ LastRead.code = "FrameTooLarge"
    /\ pos = 4

\* C17: on a FrameTooLarge rejection the body is drained iff
\* drain_oversize_up_to # 0 and L <= drain_oversize_up_to; so a rejected
\* oversize frame never makes the reader consume more than
\* 4 + drain_oversize_up_to bytes, and with
\* drain_oversize_up_to <= max_frame_len no oversize frame is drained.
C17_BoundedDrain ==
    \A i \in 1..Len(rlog) :
        rlog[i].code = "FrameTooLarge" =>
            LET L == Declared(rlog[i].at)
                consumed == PosAfter(i) - rlog[i].at
            IN  /\ DrainsOversize(L) => consumed = 4 + Min(L, BodyLeft(rlog[i].at))
                /\ ~DrainsOversize(L) => consumed = 4
                /\ consumed <= 4 + cfg.drain_oversize_up_to
                /\ cfg.drain_oversize_up_to <= cfg.max_frame_len => consumed = 4

\* an oversize frame within drain_oversize_up_to is drained, the longer one
\* after it is not
C17_Witness ==
    /\ phase = "read"
    /\ cfg.drain_oversize_up_to = MaxLen - 1
    /\ cfg.max_frame_len < MaxLen - 1
    /\ Len(sent) = 2
    /\ Len(sent[1]) = MaxLen - 1
    /\ Len(sent[2]) = MaxLen
    /\ Len(rlog) = 2
    /\ rlog[1].op = "recv_into" /\ rlog[1].code = "FrameTooLarge"
    /\ rlog[2].at = 4 + Len(sent[1])
    /\ rlog[2].op = "recv_into" /\ rlog[2].code = "FrameTooLarge"
    /\ pos = rlog[2].at + 4

\* C18: with drain_on_small_buffer = false, read_frame with a slice shorter
\* than the length L of a within-limit frame returns BufferTooSmall having
\* consumed the 4 prefix bytes only; the L body bytes stay unread, so the next
\* read starts inside the rejected frame and takes its length from the 4
\* bytes that begin with the frame's body.
C18_SmallBufferNoDrain ==
    \A i \in 1..Len(rlog) :
        (/\ rlog[i].op = "read_frame"
         /\ ~cfg.drain_on_small_buffer
         /\ HasPrefix(rlog[i].at)
         /\ Declared(rlog[i].at) <= cfg.max_frame_len
         /\ rlog[i].dlen < Declared(rlog[i].at))
        => /\ rlog[i].code = "BufferTooSmall"
           /\ PosAfter(i) = rlog[i].at + 4
           /\ i < Len(rlog) =>
                /\ \A j \in 1..Len(sent) :
                     StartsFrame(rlog[i], j) =>
                       /\ rlog[i + 1].at > FrameStart(j - 1)
                       /\ rlog[i + 1].at < FrameStart(j)
                /\ IF HasPrefix(rlog[i].at + 4)
                   THEN rlog[i + 1].len = Declared(rlog[i].at + 4)
                   ELSE rlog[i + 1].code = "Io"

\* the second read takes the two body bytes of the rejected frame and the
\* first two bytes of the next prefix for a length
C18_Witness ==
    /\ phase = "read"
    /\ ~cfg.drain_on_small_buffer
    /\ Len(sent) = 2
    /\ Len(sent[1]) = 2
    /\ Len(rlog) = 2
    /\ rlog[1].op = "read_frame" /\ rlog[1].code = "BufferTooSmall"
    /\ rlog[1].at = 0
    /\ rlog[2].at = 4
    /\ rlog[2].len = Declared(4)
    /\ rlog[2].len > 255
    /\ rlog[2].code = "FrameTooLarge"

\* the call of read i drains a frame of declared length L
DrainTriggered(i, L) ==
    \/ L > cfg.max_frame_len /\ DrainsOversize(L)
    \/ /\ rlog[i].op = "read_frame"
       /\ L <= cfg.max_frame_len
       /\ rlog[i].dlen < L
       /\ cfg.drain_on_small_buffer

\* C19: when a drain is triggered (slice too small, or oversize within
\* drain_oversize_up_to) and the stream ends before the L body bytes do, the
\* call returns the policy error (BufferTooSmall or FrameTooLarge), not Io,
\* having consumed all the bytes left; the next read fails with Io.
C19_TruncatedDrain ==
    \A i \in 1..Len(rlog) :
        (/\ HasPrefix(rlog[i].at)
         /\ DrainTriggered(i, Declared(rlog[i].at))
         /\ BodyLeft(rlog[i].at) < Declared(rlog[i].at))
        => /\ rlog[i].code = IF Declared(rlog[i].at) > cfg.max_frame_len
                             THEN "FrameTooLarge" ELSE "BufferTooSmall"
           /\ PosAfter(i) = Len(sink)
           /\ i < Len(rlog) => rlog[i + 1].code = "Io"

\* the body of a torn frame is drained for a short slice; the next read
\* finds the end of the stream
C19_Witness ==
    /\ phase = "read"
    /\ Len(rlog) = 2
    /\ rlog[1].op = "read_frame"
    /\ rlog[1].code = "BufferTooSmall"
    /\ rlog[1].at = 0
    /\ BodyLeft(0) \in 1..(Declared(0) - 1)
    /\ rlog[2].at = Len(sink)
    /\ rlog[2].code = "Io"

\* C20: when the prefix declares a within-limit L (and, for read_frame, the
\* slice holds L bytes) but fewer than L body bytes are left in the stream,
\* recv_into and read_frame fail with Io; a call that succeeds has read all
\* the L body bytes and reports the length L, never less.
C20_TruncatedBody ==
    \A i \in 1..Len(rlog) :
        HasPrefix(rlog[i].at) =>
            LET L == Declared(rlog[i].at) IN
            /\ (/\ L <= cfg.max_frame_len
                /\ rlog[i].op = "read_frame" => rlog[i].dlen >= L
                /\ BodyLeft(rlog[i].at) < L)
               => rlog[i].code = "Io"
            /\ rlog[i].code = "Ok" =>
                 /\ BodyLeft(rlog[i].at) >= L
                 /\ rlog[i].len = L
                 /\ PosAfter(i) = rlog[i].at + 4 + L
                 /\ i = Len(rlog) =>
                      Returned = SubSeq(sink, rlog[i].at + 5, rlog[i].at + 4 + L)

\* a whole frame is read, then recv_into fails on the frame the full sink
\* tore
C20_Witness ==
    /\ phase = "read"
    /\ Len(rlog) = 2
    /\ rlog[1].code = "Ok"
    /\ rlog[2].op = "recv_into"
    /\ HasPrefix(rlog[2].at)
    /\ Declared(rlog[2].at) <= cfg.max_frame_len
    /\ BodyLeft(rlog[2].at) \in 1..(Declared(rlog[2].at) - 1)
    /\ rlog[2].code = "Io"

\* read call e was rejected before any body byte was read into the
\* destination: by the policy, or by an Io error on the length prefix
Rejected(e) ==
    \/ e.code \in {"FrameTooLarge", "BufferTooSmall"}
    \/ e.code = "Io" /\ ~HasPrefix(e.at)

\* C21: when recv_into fails with FrameTooLarge or with an Io error on the
\* length prefix, the caller's Vec keeps its length and contents; when
\* read_frame fails with FrameTooLarge, BufferTooSmall or an Io error on the
\* length prefix, no byte of the slice is modified, drained or not.
C21_DestinationKept ==
    (Len(rlog) >= 1 /\ Rejected(LastRead)) =>
        /\ LastRead.op = "recv_into" => dst = dstBefore
        /\ LastRead.op = "read_frame" => buf = SliceBefore(LastRead)

\* recv_into rejects and drains an oversize frame into the Vec that holds
\* the payload of the frame before it
C21_Witness ==
    /\ phase = "read"
    /\ Len(rlog) = 2
    /\ Len(sent) = 2
    /\ rlog[1].op = "recv_into" /\ rlog[1].code = "Ok"
    /\ rlog[2].op = "recv_into" /\ rlog[2].code = "FrameTooLarge"
    /\ DrainsOversize(rlog[2].len)
    /\ pos = Len(sink)
    /\ Len(dst) >= 1
    /\ dst = sent[1]

\* C22: after read_frame returns L, the first L bytes of the slice hold the
\* payload and every byte of the slice at index >= L (counted from 0) has
\* the value it had before the call.
C22_OnlyTheFrame ==
    (Len(rlog) >= 1 /\ LastRead.op = "read_frame" /\ LastRead.code = "Ok") =>
        LET L == LastRead.len IN
        /\ Len(buf) = LastRead.dlen
        /\ SubSeq(buf, 1, L) = SubSeq(sink, LastRead.at + 5, LastRead.at + 4 + L)
        /\ \A k \in (L + 1)..LastRead.dlen : buf[k] = SliceBefore(LastRead)[k]

\* a frame of one byte read into a slice of MaxLen bytes
C22_Witness ==
    /\ phase = "read"
    /\ Len(rlog) >= 1
    /\ LastRead.op = "read_frame"
    /\ LastRead.code = "Ok"
    /\ LastRead.len = 1
    /\ LastRead.dlen = MaxLen
    /\ buf[1] = sink[LastRead.at + 5]
    /\ buf[MaxLen] = FreshSlice(MaxLen)[MaxLen]

---------------------------------------------------------------------------
\* outcome o of a read path has the result of read call i and leaves the
\* cursor where that call left it
Agrees(i, o) ==
    o.code = rlog[i].code /\ o.len = rlog[i].len /\ o.pos = PosAfter(i)

\* a slice length that holds the frame read call i found, when the frame is
\* within the limit
HoldingLen(i) ==
    IF HasPrefix(rlog[i].at) /\ Declared(rlog[i].at) <= cfg.max_frame_len
    THEN Declared(rlog[i].at) ELSE 0

\* C23: for the same configuration and stream position, recv_into and
\* read_frame on a slice of at least L bytes consume the same bytes and end
\* the same way (the same payload, or the same error Io or FrameTooLarge with
\* the same drain decision), and recv_into never returns BufferTooSmall;
\* recv_frame behaves as read_frame; send_frame and send_bytes behave as
\* write_frame.
C23_PathsAgree ==
    /\ \A i \in 1..Len(rlog) :
         /\ rlog[i].op = "recv_into" =>
              /\ rlog[i].code # "BufferTooSmall"
              /\ \E o \in read_frame(sink, rlog[i].at, cfg, FreshSlice(HoldingLen(i))) :
                   /\ Agrees(i, o)
                   /\ (i = Len(rlog) /\ o.code = "Ok") => SubSeq(o.dst, 1, o.len) = dst
         /\ rlog[i].op = "recv_frame" =>
              /\ \E o \in read_frame(sink, rlog[i].at, cfg, FreshSlice(rlog[i].dlen)) :
                   /\ Agrees(i, o)
                   /\ i = Len(rlog) => o.dst = buf
              /\ rlog[i].dlen >= HoldingLen(i) =>
                   \E o \in recv_into(sink, rlog[i].at, cfg, <<>>) :
                       /\ Agrees(i, o)
                       /\ (i = Len(rlog) /\ o.code = "Ok") =>
                            o.dst = SubSeq(buf, 1, rlog[i].len)
    /\ (phase = "write" /\ Len(wlog) >= 1
        /\ LastWrite.op \in {"send_frame", "send_bytes"}) =>
         write_frame(sinkBefore, LastWrite.bytes) = [sink |-> sink, code |-> LastWrite.code]

\* recv_into rejects and drains an oversize frame, recv_frame returns the
\* frame after it
C23_Witness ==
    /\ phase = "read"
    /\ Len(rlog) = 2
    /\ Len(sent) = 2
    /\ rlog[1].op = "recv_into" /\ rlog[1].code = "FrameTooLarge"
    /\ DrainsOversize(rlog[1].len)
    /\ rlog[2].at = 4 + Len(sent[1])
    /\ rlog[2].op = "recv_frame" /\ rlog[2].code = "Ok"
    /\ rlog[2].len >= 1
    /\ SubSeq(buf, 1, rlog[2].len) = sent[2]

---------------------------------------------------------------------------
\* byte i of the frame of a payload of at most 2^32 - 1 bytes: the length,
\* little-endian, then the payload
FrameByte(bytes, i) ==
    IF i <= 4
    THEN (IF bytes.zeros = Wide(0) THEN Le4(Len(bytes.data)) ELSE <<255, 255, 255, 255>>)[i]
    ELSE IF i - 4 <= Len(bytes.data) THEN bytes.data[i - 4] ELSE 0

\* C24: when the sink fails during write_frame (an error of the sink, or no
\* room left), the call returns Io; the bytes the sink accepted before the
\* failure, the first bytes of the frame, stay written after what the sink
\* held, and nothing else is written or removed; after a failure in the
\* length prefix no payload byte is written.
C24_TornWrite ==
    (Len(wlog) >= 1 /\ ~ExceedsU32(LastWrite.bytes)) =>
        LET e == LastWrite
            room == SinkCap - Len(sinkBefore)
            k == Len(sink) - Len(sinkBefore)
            failed == e.fault.call # 0 \/ ~WideLeq(slice_len(e.bytes), room - 4)
        IN  /\ failed <=> e.code = "Io"
            /\ e.code = "Io" =>
                 /\ SubSeq(sink, 1, Len(sinkBefore)) = sinkBefore
                 /\ \A i \in 1..k : sink[Len(sinkBefore) + i] = FrameByte(e.bytes, i)
                 /\ k = IF e.fault.call = 1 THEN Min(e.fault.n, room)
                        ELSE IF e.fault.call = 2 THEN Min(4 + e.fault.n, room)
                        ELSE room
                 /\ (e.fault.call = 1 \/ room < 4) => k < 4
            /\ e.fault = NoFault =>
                 write_frame(sinkBefore, e.bytes) = [sink |-> sink, code |-> e.code]

\* after a whole frame, the sink fails two bytes into the prefix of the next
C24_Witness ==
    /\ Len(wlog) = 2
    /\ wlog[1].code = "Ok"
    /\ Len(LastWrite.bytes.data) = MaxLen
    /\ LastWrite.fault = [call |-> 1, n |-> 2]
    /\ LastWrite.code = "Io"
    /\ Len(sinkBefore) >= 4
    /\ Len(sink) = Len(sinkBefore) + 2

=============================================================================
